---- MODULE Spec2Model ----
(***************************************************************************)
(* AudioFlinger::EffectDapController: the controller that binds the global *)
(* DAP effect and keeps its pregain / bypass / offload state in step with  *)
(* the render threads.  The handlers are translated from the controller's  *)
(* source; the effect module, the effect chain, the threads and the        *)
(* property store are the environment.                                     *)
(***************************************************************************)
EXTENDS Integers, Sequences, FiniteSets, TLC

\* ------------------------------------------------------------------ bounds

\* Longest version string drawn for versionCompare.
MaxStrLen == 3
\* Volumes are drawn from {0, 80, ..., 80 * MaxVolSteps}.
MaxVolSteps == 1
\* Longest active-track collection handed to a bypass evaluation.
MaxTracks == 2

\* ----------------------------------------------------------------- strings
\* A std::string is a sequence of one-character strings.

Chars == {".", "3", "6", "7"}

\* The character's code: std::string compares by unsigned char value.
Ord(c) ==
    CASE c = "." -> 46
      [] c = "1" -> 49
      [] c = "3" -> 51
      [] c = "6" -> 54
      [] c = "7" -> 55
      [] c = "8" -> 56

\* Mutant of StrLess: a numeric comparison, where the shorter run of digits
\* is the smaller number.
RECURSIVE StrLessNumeric(_, _)
StrLessNumeric(a, b) ==
    IF Len(a) # Len(b) THEN Len(a) < Len(b)
    ELSE IF a = <<>> THEN FALSE
    ELSE IF Ord(Head(a)) < Ord(Head(b)) THEN TRUE
    ELSE IF Ord(Head(a)) > Ord(Head(b)) THEN FALSE
    ELSE StrLessNumeric(Tail(a), Tail(b))

RECURSIVE StrLess(_, _)
\* std::string operator<: lexicographic by character, a proper prefix is less.
StrLess(a, b) ==
    IF b = <<>> THEN FALSE
    ELSE IF a = <<>> THEN TRUE
    ELSE IF Ord(Head(a)) < Ord(Head(b)) THEN TRUE
    ELSE IF Ord(Head(a)) > Ord(Head(b)) THEN FALSE
    ELSE StrLess(Tail(a), Tail(b))

RECURSIVE StrTok(_, _, _, _)
\* The strtok_r loop: cur is the token being read, acc the tokens pushed so
\* far.  Separators end a token; runs of separators and leading or trailing
\* separators yield no (empty) token.
StrTok(str, sep, cur, acc) ==
    IF str = <<>> THEN (IF cur = <<>> THEN acc ELSE Append(acc, cur))
    ELSE IF Head(str) = sep
         THEN StrTok(Tail(str), sep, <<>>, IF cur = <<>> THEN acc ELSE Append(acc, cur))
         ELSE StrTok(Tail(str), sep, Append(cur, Head(str)), acc)

strSplit(str, sep) == StrTok(str, sep, <<>>, <<>>)

Min(a, b) == IF a < b THEN a ELSE b

RECURSIVE CompareFrom(_, _, _, _)
\* The for loop of versionCompare from index i.
CompareFrom(s1, s2, i, min_len) ==
    IF i > min_len THEN 0
    ELSE IF StrLess(s1[i], s2[i]) THEN -1
    ELSE IF StrLess(s2[i], s1[i]) THEN 1
    ELSE CompareFrom(s1, s2, i + 1, min_len)

versionCompare(version_1, version_2) ==
    LET version_splits_1 == strSplit(version_1, ".")
        version_splits_2 == strSplit(version_2, ".")
        min_len == Min(Len(version_splits_1), Len(version_splits_2))
    IN  CompareFrom(version_splits_1, version_splits_2, 1, min_len)

DAX3_3POINT6 == <<"3", ".", "6">>
V361 == <<"3", ".", "6", ".", "1">>
V37 == <<"3", ".", "7">>
V38 == <<"3", ".", "8">>

RECURSIVE StringsUpTo(_)
StringsUpTo(n) ==
    IF n = 0 THEN {<<>>}
    ELSE LET shorter == StringsUpTo(n - 1)
         IN  shorter \cup {Append(s, c) : s \in {t \in shorter : Len(t) = n - 1}, c \in Chars}

\* The version strings versionCompare is applied to.
VersionStrings == StringsUpTo(MaxStrLen) \cup {DAX3_3POINT6, V361, V37}

\* ------------------------------------------------------------- environment

NULL == "NULL"

\* The candidate effects the framework reports.  e1 and e2 are DAP effects of
\* the global output-mix session (e2 offloadable), e3 is a DAP effect of
\* another session, e4 is another plugin in the output-mix session.
Effects == {"e1", "e2", "e3", "e4"}
isDapEffect(effect) == effect \in {"e1", "e2", "e3"}
sessionId(effect) == IF effect = "e3" THEN "SESSION_7" ELSE "AUDIO_SESSION_OUTPUT_MIX"
isOffloadable(effect) == effect = "e2"

ThreadIds == {5, 6}

\* What mEffect->getCallback()->chain() and chain->thread() resolve to:
\*   gone        the chain cannot be promoted
\*   unattached  the chain's thread reference is null
\*   dead        the thread reference is set and no longer promotes
\*   live        it promotes to the thread with this id
AttachStates ==
    {[st |-> "gone", id |-> 0], [st |-> "unattached", id |-> 0], [st |-> "dead", id |-> 0]}
        \cup {[st |-> "live", id |-> i] : i \in ThreadIds}
Detached == [st |-> "gone", id |-> 0]

Volumes == {80 * k : k \in 0..MaxVolSteps}

\* The (thread type, output flags) pairs updatePregain is called with.
PregainCallers ==
    { <<"MIXER", {}>>, <<"MIXER", {"DEEP_BUFFER"}>>, <<"MIXER", {"FAST"}>>,
      <<"MIXER", {"DEEP_BUFFER", "DIRECT"}>>,
      <<"DIRECT", {"DIRECT"}>>,
      <<"OFFLOAD", {"DIRECT", "COMPRESS_OFFLOAD"}>>,
      <<"OFFLOAD", {"COMPRESS_OFFLOAD"}>>,
      <<"DUPLICATING", {}>> }

\* audio_output_flags_t bit of a flag, as sent in values[1].
FlagBit(flag) ==
    CASE flag = "DIRECT" -> 1
      [] flag = "FAST" -> 4
      [] flag = "DEEP_BUFFER" -> 8
      [] flag = "COMPRESS_OFFLOAD" -> 16
      [] OTHER -> 0

\* What mEffect->command() hands back: the transport status, the reply's
\* size in bytes and the status_t its first four bytes hold.
Replies ==
    { [transport |-> "NO_ERROR", size |-> 4, status |-> "NO_ERROR"],
      [transport |-> "NO_ERROR", size |-> 4, status |-> "INVALID_OPERATION"],
      [transport |-> "NO_ERROR", size |-> 8, status |-> "NO_ERROR"],
      [transport |-> "DEAD_OBJECT", size |-> 0, status |-> "NO_ERROR"] }
NoReply == [transport |-> "NONE", size |-> 0, status |-> "NONE"]

\* Values of the PROPERTY_DAX_VERSION system property ("" when unset).
PropValues == {<<>>, DAX3_3POINT6, V38}

\* versionCompare(v, DAX3_3POINT6) > 0, tabulated for the versions the cache
\* can hold.
newerThanBaseline == [v \in PropValues |-> versionCompare(v, DAX3_3POINT6) > 0]

\* ------------------------------------------------------------------- state

VARIABLES
    \* EffectDapController's fields
    mEffect, mBypassed, mDapVol, mMixerVol, mDirectVol, mOffloadVol, mVersion,
    mMaxMixerVol, mMaxDirectVol, mMaxOffloadVol, mAudioFlags,
    mIsSoundTypesBypassEnabled,
    \* the environment: the version property, the bound effect's chain and
    \* enabled state, and whether LOG_ALWAYS_FATAL has ended the process
    propValue, attach, enabled, fatal,
    \* observation: the last call and the commands it issued to the effect
    lastOp, sent,
    \* the operands and result of a versionCompare evaluation
    verA, verB, verResult,
    \* the threads calling the controller: where each one is in its call and
    \* the call's arguments and locals, the holder of mLock, and whether a
    \* null mEffect has been dereferenced
    pc, frame, mLock, nullUse,
    \* observation: the arguments of the last updatePregain call, and the value
    \* of the last bypass command the threads sent to the current binding
    \* (<<>> when none was sent)
    lastCall, lastBypass,
    \* FeatureManager: the static mInstance and the number of instances
    \* constructed, the instance's mFeatureTable, the holder of
    \* FeatureManager::mLock, where each thread is in isFeatureEnable with its
    \* argument and result, and the PROPERTY_DAX_SUPPORT property
    mInstance, created, mFeatureTable, fmLock, fm, daxSupport

ctrlVars ==
    <<mEffect, mBypassed, mDapVol, mMixerVol, mDirectVol, mOffloadVol, mVersion,
      mMaxMixerVol, mMaxDirectVol, mMaxOffloadVol, mAudioFlags,
      mIsSoundTypesBypassEnabled>>
envVars == <<propValue, attach, enabled, fatal>>
obsVars == <<lastOp, sent>>
verVars == <<verA, verB, verResult>>
thrVars == <<pc, frame, mLock, nullUse>>
argVars == <<lastCall, lastBypass>>
fmVars == <<mInstance, created, mFeatureTable, fmLock, fm, daxSupport>>
controllerVars == <<ctrlVars, envVars, obsVars, verVars, thrVars, argVars>>
vars == <<controllerVars, fmVars>>

volVars == <<mDapVol, mMixerVol, mDirectVol, mOffloadVol>>
maxVars == <<mMaxMixerVol, mMaxDirectVol, mMaxOffloadVol>>

\* mAudioFlags before its first assignment: the constructor leaves it
\* uninitialized, so a read of it then yields any value.
Uninitialized == -1

\* An observed call: its name, its effect argument, of its activeTracks
\* argument the size and whether a MUSIC track and a RING track are among
\* them, whether the call got past its early returns, and the status_t it
\* returned ("NONE" for void).
Op(name, effect, tracks, passed) ==
    [name |-> name, effect |-> effect, size |-> Len(tracks),
     music |-> \E i \in DOMAIN tracks : tracks[i].stream = "AUDIO_STREAM_MUSIC",
     ring |-> \E i \in DOMAIN tracks : tracks[i].stream = "AUDIO_STREAM_RING",
     passed |-> passed, status |-> "NONE"]

\* The arguments of an updatePregain call; NoCall before the first one.
NoCall == [thread_type |-> "NULL", id |-> 0, flags |-> {}, max_vol |-> 0]

\* ------------------------------------------------------ the command channel

Cmd(id, vals, reply, status) ==
    [id |-> id, vals |-> vals, reply |-> reply, status |-> status]

\* The tail of setParam and setParameters: the status of a command whose
\* reply is `reply`; a reply of another size than 4 is LOG_ALWAYS_FATAL.
setParam(eff, paramId, value, reply) ==
    IF eff = NULL
    THEN [status |-> "NO_INIT", fatal |-> FALSE, cmds |-> <<>>]
    ELSE IF reply.transport = "NO_ERROR"
    THEN IF reply.size # 4
         THEN [status |-> "ABORTED", fatal |-> TRUE,
               cmds |-> <<Cmd(paramId, <<value>>, reply, "ABORTED")>>]
         ELSE [status |-> reply.status, fatal |-> FALSE,
               cmds |-> <<Cmd(paramId, <<value>>, reply, reply.status)>>]
    ELSE [status |-> reply.transport, fatal |-> FALSE,
          cmds |-> <<Cmd(paramId, <<value>>, reply, reply.transport)>>]

\* Mutant of setParameters: the reply's size is not checked.
setParametersAnySize(eff, paramId, values, reply) ==
    IF values = <<>>
    THEN [status |-> "BAD_VALUE", fatal |-> FALSE, cmds |-> <<>>]
    ELSE IF eff = NULL
    THEN [status |-> "NO_INIT", fatal |-> FALSE, cmds |-> <<>>]
    ELSE IF reply.transport = "NO_ERROR"
    THEN [status |-> reply.status, fatal |-> FALSE,
          cmds |-> <<Cmd(paramId, values, reply, reply.status)>>]
    ELSE [status |-> reply.transport, fatal |-> FALSE,
          cmds |-> <<Cmd(paramId, values, reply, reply.transport)>>]

setParameters(eff, paramId, values, reply) ==
    IF values = <<>>
    THEN [status |-> "BAD_VALUE", fatal |-> FALSE, cmds |-> <<>>]
    ELSE IF eff = NULL
    THEN [status |-> "NO_INIT", fatal |-> FALSE, cmds |-> <<>>]
    ELSE IF reply.transport = "NO_ERROR"
    THEN IF reply.size # 4
         THEN [status |-> "ABORTED", fatal |-> TRUE,
               cmds |-> <<Cmd(paramId, values, reply, "ABORTED")>>]
         ELSE [status |-> reply.status, fatal |-> FALSE,
               cmds |-> <<Cmd(paramId, values, reply, reply.status)>>]
    ELSE [status |-> reply.transport, fatal |-> FALSE,
          cmds |-> <<Cmd(paramId, values, reply, reply.transport)>>]

B2I(b) == IF b THEN 1 ELSE 0

\* ------------------------------------------------------------ version cache

\* property_get(key, value, ""): the length of the value it stored.
property_get(prop) == Len(prop)

\* getVersion(): the value it leaves in mVersion, which is what it returns.
getVersion(version, prop) ==
    IF version # <<>> THEN version
    ELSE IF property_get(prop) # 0
         THEN (IF prop # <<>> THEN prop ELSE DAX3_3POINT6)
         ELSE version

\* ------------------------------------------------------------------ pregain

Max3(a, b, c) ==
    LET bc == IF b < c THEN c ELSE b
    IN  IF a < bc THEN bc ELSE a

\* The category flag setPregainWithStreamType puts in the command, or
\* "NONE" when it returns NO_ERROR without sending.
pregainFlag(maxVol, flags) ==
    IF "DEEP_BUFFER" \in flags /\ maxVol # mMaxMixerVol THEN "DEEP_BUFFER"
    ELSE IF "DIRECT" \in flags /\ maxVol # mMaxDirectVol THEN "DIRECT"
    ELSE IF "COMPRESS_OFFLOAD" \in flags /\ maxVol # mMaxOffloadVol THEN "COMPRESS_OFFLOAD"
    ELSE "NONE"

\* The last-applied value setPregainWithStreamType records after a command
\* that returned NO_ERROR, or "NONE".
pregainRecord(flags) ==
    IF "DEEP_BUFFER" \in flags THEN "DEEP_BUFFER"
    ELSE IF "DIRECT" \in flags THEN "DIRECT"
    ELSE IF "COMPRESS_OFFLOAD" \in flags THEN "COMPRESS_OFFLOAD"
    ELSE "NONE"

\* Mutant of setPregainWithStreamType: the value is recorded whatever the
\* status of the command.
setPregainRecordsFailures(maxVol, flags, reply) ==
    LET flag == pregainFlag(maxVol, flags)
        keep == [maxMixer |-> mMaxMixerVol, maxDirect |-> mMaxDirectVol,
                 maxOffload |-> mMaxOffloadVol]
    IN  IF flag = "NONE"
        THEN [status |-> "NO_ERROR", fatal |-> FALSE, cmds |-> <<>>] @@ keep
        ELSE LET r == setParameters(mEffect, "EFFECT_PARAM_SET_PREGAIN",
                                    <<maxVol, FlagBit(flag)>>, reply)
                 rec == pregainRecord(flags)
             IN  [status |-> r.status, fatal |-> r.fatal, cmds |-> r.cmds,
                  maxMixer |-> IF rec = "DEEP_BUFFER" THEN maxVol ELSE mMaxMixerVol,
                  maxDirect |-> IF rec = "DIRECT" THEN maxVol ELSE mMaxDirectVol,
                  maxOffload |-> IF rec = "COMPRESS_OFFLOAD" THEN maxVol ELSE mMaxOffloadVol]

\* setPregainWithStreamType(maxVol, flags): the command it sends, its status
\* and the last-applied values after it.
setPregainWithStreamType(maxVol, flags, reply) ==
    LET flag == pregainFlag(maxVol, flags)
        keep == [maxMixer |-> mMaxMixerVol, maxDirect |-> mMaxDirectVol,
                 maxOffload |-> mMaxOffloadVol]
    IN  IF flag = "NONE"
        THEN [status |-> "NO_ERROR", fatal |-> FALSE, cmds |-> <<>>] @@ keep
        ELSE LET r == setParameters(mEffect, "EFFECT_PARAM_SET_PREGAIN",
                                    <<maxVol, FlagBit(flag)>>, reply)
                 rec == IF r.status = "NO_ERROR" THEN pregainRecord(flags) ELSE "NONE"
             IN  [status |-> r.status, fatal |-> r.fatal, cmds |-> r.cmds,
                  maxMixer |-> IF rec = "DEEP_BUFFER" THEN maxVol ELSE mMaxMixerVol,
                  maxDirect |-> IF rec = "DIRECT" THEN maxVol ELSE mMaxDirectVol,
                  maxOffload |-> IF rec = "COMPRESS_OFFLOAD" THEN maxVol ELSE mMaxOffloadVol]

\* Mutant of pregainGate: the thread id has to match for every binding.
pregainGateStrictId(thread_type, id, flags) ==
    /\ mEffect # NULL
    /\ "FAST" \notin flags
    /\ attach.st = "live"
    /\ id = attach.id
    /\ isOffloadable(mEffect) \/ (enabled /\ thread_type = "MIXER")

\* The checks of updatePregain between the version test and the volume
\* update: TRUE when the call goes on to update a volume.
pregainGate(thread_type, id, flags) ==
    /\ mEffect # NULL
    /\ "FAST" \notin flags
    /\ attach.st # "gone"
    /\ attach.st # "unattached"
    /\ IF ~isOffloadable(mEffect)
       THEN /\ enabled
            /\ thread_type = "MIXER"
            /\ attach.st = "live"
            /\ id = attach.id
       ELSE /\ attach.st = "live"
            /\ (id = attach.id \/ "DEEP_BUFFER" \in flags)

\* Mutant of pregainSuppressed: a volume of 0 is passed on.
pregainSuppressedNever(vol) == FALSE

\* "Ignore the passed volume on condition that there's no active playback."
pregainSuppressed(vol) == vol = 0

\* Whether updatePregain(thread_type, id, flags, max_vol) issues a command.
pregainSends(thread_type, id, flags, max_vol) ==
    LET mixer == IF thread_type = "MIXER" THEN max_vol ELSE mMixerVol
        direct == IF thread_type = "DIRECT" THEN max_vol ELSE mDirectVol
        offload == IF thread_type = "OFFLOAD" THEN max_vol ELSE mOffloadVol
        vol == Max3(mixer, direct, offload)
    IN  /\ ~newerThanBaseline[getVersion(mVersion, propValue)]
        /\ pregainGate(thread_type, id, flags)
        /\ ~pregainSuppressed(vol)
        /\ pregainFlag(vol, flags) # "NONE"

\* updatePregain(thread_type, id, flags, max_vol), run under mLock.
UpdatePregain(thread_type, id, flags, max_vol, reply) ==
    LET version == getVersion(mVersion, propValue)
        skipped == newerThanBaseline[version]
        passed == ~skipped /\ pregainGate(thread_type, id, flags)
        mixer == IF passed /\ thread_type = "MIXER" THEN max_vol ELSE mMixerVol
        direct == IF passed /\ thread_type = "DIRECT" THEN max_vol ELSE mDirectVol
        offload == IF passed /\ thread_type = "OFFLOAD" THEN max_vol ELSE mOffloadVol
        vol == Max3(mixer, direct, offload)
        r == IF passed /\ ~pregainSuppressed(vol)
             THEN setPregainWithStreamType(vol, flags, reply)
             ELSE [status |-> "NONE", fatal |-> FALSE, cmds |-> <<>>,
                   maxMixer |-> mMaxMixerVol, maxDirect |-> mMaxDirectVol,
                   maxOffload |-> mMaxOffloadVol]
    IN  /\ ~fatal
        /\ mVersion' = version
        /\ mMixerVol' = mixer
        /\ mDirectVol' = direct
        /\ mOffloadVol' = offload
        /\ mMaxMixerVol' = r.maxMixer
        /\ mMaxDirectVol' = r.maxDirect
        /\ mMaxOffloadVol' = r.maxOffload
        /\ mDapVol' = IF r.status = "NO_ERROR" THEN vol ELSE mDapVol
        /\ fatal' = r.fatal
        /\ sent' = r.cmds
        /\ lastOp' = Op("updatePregain", NULL, <<>>, passed)
        /\ UNCHANGED <<mEffect, mBypassed, mAudioFlags, mIsSoundTypesBypassEnabled,
                       propValue, attach, enabled, verVars, thrVars, fmVars>>

\* ------------------------------------------------------------------ offload

\* The ThreadBase a caller passes: its id, its type and whether its output
\* devices include NO_OFFLOAD_DEVICES.  NullThread is a null pointer.
NullThread == [id |-> 0, type |-> "NULL", noOffloadDevice |-> FALSE]
Threads ==
    { [id |-> 5, type |-> "MIXER", noOffloadDevice |-> TRUE],
      [id |-> 6, type |-> "MIXER", noOffloadDevice |-> FALSE],
      [id |-> 6, type |-> "OFFLOAD", noOffloadDevice |-> TRUE] }

\* updateOffload(thread) for the binding `eff` whose chain resolves as `att`:
\* the commands it issues and whether it ended in LOG_ALWAYS_FATAL.
updateOffload(eff, att, thread, reply) ==
    IF eff = NULL \/ att.st # "live" \/ thread = NullThread \/ att.id # thread.id
    THEN [fatal |-> FALSE, cmds |-> <<>>]
    ELSE LET r == setParam(eff, "EFFECT_PARAM_IO_HANDLE", att.id, reply)
             offload == thread.type = "OFFLOAD" \/ ~thread.noOffloadDevice
         IN  IF r.fatal \/ ~isOffloadable(eff)
             THEN [fatal |-> r.fatal, cmds |-> r.cmds]
             ELSE [fatal |-> FALSE,
                   cmds |-> r.cmds \o <<Cmd("setOffloaded", <<B2I(offload), thread.id>>,
                                            NoReply, "NONE")>>]

\* Whether updateOffload(thread) reaches its setParam.
offloadSends(eff, att, thread) ==
    eff # NULL /\ att.st = "live" /\ thread # NullThread /\ att.id = thread.id

UpdateOffload(thread, reply) ==
    LET r == updateOffload(mEffect, attach, thread, reply)
    IN  /\ ~fatal
        /\ fatal' = r.fatal
        /\ sent' = r.cmds
        /\ lastOp' = Op("updateOffload", NULL, <<>>, r.cmds # <<>>)
        /\ UNCHANGED <<ctrlVars, propValue, attach, enabled, verVars, thrVars, fmVars, argVars>>

\* ------------------------------------------------------------------- bypass

\* A PlaybackThread::Track: its stream type, whether it is a fast track,
\* whether it is an external track, and its attributes().flags.  NullTrack is
\* an entry of activeTracks whose sp<> holds no track.
NullTrack == [stream |-> "NULL", fast |-> FALSE, external |-> FALSE, flags |-> 0]
MusicTrack ==
    [stream |-> "AUDIO_STREAM_MUSIC", fast |-> FALSE, external |-> TRUE, flags |-> 1]
RingTrack ==
    [stream |-> "AUDIO_STREAM_RING", fast |-> FALSE, external |-> TRUE, flags |-> 2]
TrackKinds ==
    { NullTrack, MusicTrack, RingTrack,
      [stream |-> "AUDIO_STREAM_NOTIFICATION", fast |-> TRUE, external |-> TRUE, flags |-> 1],
      [stream |-> "AUDIO_STREAM_VOICE_CALL", fast |-> FALSE, external |-> FALSE, flags |-> 2] }

RECURSIVE TracksUpTo(_)
TracksUpTo(n) ==
    IF n = 0 THEN {<<>>}
    ELSE LET shorter == TracksUpTo(n - 1)
         IN  shorter \cup {Append(s, t) : s \in {u \in shorter : Len(u) = n - 1},
                                            t \in TrackKinds}

ActiveTracks == TracksUpTo(MaxTracks)

\* The track lists the calls are made with.  A null entry is passed alone:
\* next to another track it leads to no state that the other lists do not
\* lead to.
CalledTracks == {s \in ActiveTracks : Len(s) = 2 => s[1] # NullTrack /\ s[2] # NullTrack}

RECURSIVE BitOr(_, _)
\* a | b on non-negative ints.
BitOr(a, b) ==
    IF a = 0 THEN b
    ELSE IF b = 0 THEN a
    ELSE (IF a % 2 = 1 \/ b % 2 = 1 THEN 1 ELSE 0) + 2 * BitOr(a \div 2, b \div 2)

\* Mutant of bypassTrack: AUDIO_STREAM_RING is missing from the list.
bypassTrackNoRing(track) ==
    IF mIsSoundTypesBypassEnabled
    THEN /\ track # NullTrack
         /\ track.stream \in {"AUDIO_STREAM_SYSTEM", "AUDIO_STREAM_ALARM",
                              "AUDIO_STREAM_NOTIFICATION", "AUDIO_STREAM_DTMF",
                              "AUDIO_STREAM_ASSISTANT", "AUDIO_STREAM_CNT"}
    ELSE FALSE

bypassTrack(track) ==
    IF mIsSoundTypesBypassEnabled
    THEN /\ track # NullTrack
         /\ track.stream \in {"AUDIO_STREAM_SYSTEM", "AUDIO_STREAM_RING",
                              "AUDIO_STREAM_ALARM", "AUDIO_STREAM_NOTIFICATION",
                              "AUDIO_STREAM_DTMF", "AUDIO_STREAM_ASSISTANT",
                              "AUDIO_STREAM_CNT"}
    ELSE FALSE

\* Mutant of audioFlagsFrom: each track's flags replace the running total.
RECURSIVE audioFlagsFromLast(_, _, _)
audioFlagsFromLast(activeTracks, i, flags) ==
    IF i > Len(activeTracks) THEN flags
    ELSE LET track == activeTracks[i]
         IN  IF track # NullTrack /\ ~track.fast /\ track.external
             THEN audioFlagsFromLast(activeTracks, i + 1, track.flags)
             ELSE audioFlagsFromLast(activeTracks, i + 1, flags)

RECURSIVE audioFlagsFrom(_, _, _)
\* The flags loop of checkAudioTracks from index i.
audioFlagsFrom(activeTracks, i, flags) ==
    IF i > Len(activeTracks) THEN flags
    ELSE LET track == activeTracks[i]
         IN  IF track # NullTrack /\ ~track.fast /\ track.external
             THEN audioFlagsFrom(activeTracks, i + 1, BitOr(flags, track.flags))
             ELSE audioFlagsFrom(activeTracks, i + 1, flags)

\* Mutant of bypassFrom: a music track resets bypass and the scan goes on.
RECURSIVE bypassFromNoBreak(_, _, _)
bypassFromNoBreak(activeTracks, i, bypass) ==
    IF i > Len(activeTracks) THEN bypass
    ELSE LET track == activeTracks[i]
         IN  IF track # NullTrack /\ track.stream = "AUDIO_STREAM_MUSIC"
             THEN bypassFromNoBreak(activeTracks, i + 1, FALSE)
             ELSE IF bypassTrack(track) THEN bypassFromNoBreak(activeTracks, i + 1, TRUE)
             ELSE bypassFromNoBreak(activeTracks, i + 1, bypass)

RECURSIVE bypassFrom(_, _, _)
\* The bypass loop of checkAudioTracks and checkForBypass from index i.
bypassFrom(activeTracks, i, bypass) ==
    IF i > Len(activeTracks) THEN bypass
    ELSE LET track == activeTracks[i]
         IN  IF track # NullTrack /\ track.stream = "AUDIO_STREAM_MUSIC" THEN FALSE
             ELSE IF bypassTrack(track) THEN bypassFrom(activeTracks, i + 1, TRUE)
             ELSE bypassFrom(activeTracks, i + 1, bypass)

\* Mutant of audioTracksGate: no return on an empty activeTracks.
audioTracksGateNoSizeCheck(activeTracks, id) ==
    /\ mEffect # NULL
    /\ attach.st # "gone"
    /\ attach.st # "unattached"
    /\ isOffloadable(mEffect) \/ (enabled /\ attach.st = "live" /\ id = attach.id)

\* The early returns of checkAudioTracks: TRUE when it goes on to the loops.
audioTracksGate(activeTracks, id) ==
    /\ Len(activeTracks) # 0
    /\ mEffect # NULL
    /\ attach.st # "gone"
    /\ attach.st # "unattached"
    /\ isOffloadable(mEffect) \/ (enabled /\ attach.st = "live" /\ id = attach.id)

\* Whether mAudioFlags != flags; a read of the uninitialized field compares
\* either way, as `differs` says.
audioFlagsDiffer(flags, differs) ==
    IF mAudioFlags = Uninitialized THEN differs ELSE mAudioFlags # flags

\* checkAudioTracks(activeTracks, id).  r1 answers the audio-flags command,
\* r2 the bypass command.
CheckAudioTracks(activeTracks, id, differs, r1, r2) ==
    LET passed == audioTracksGate(activeTracks, id)
        flags == audioFlagsFrom(activeTracks, 1, 0)
        f == IF passed /\ audioFlagsDiffer(flags, differs)
             THEN setParam(mEffect, "EFFECT_PARAM_SET_AUDIO_FLAG", flags, r1)
             ELSE [status |-> "NONE", fatal |-> FALSE, cmds |-> <<>>]
        bypass == bypassFrom(activeTracks, 1, FALSE)
        b == IF passed /\ ~f.fatal /\ mIsSoundTypesBypassEnabled /\ bypass # mBypassed
             THEN setParam(mEffect, "EFFECT_PARAM_SET_BYPASS", B2I(bypass), r2)
             ELSE [status |-> "NONE", fatal |-> FALSE, cmds |-> <<>>]
    IN  /\ ~fatal
        /\ mAudioFlags' = IF passed /\ ~f.fatal THEN flags ELSE mAudioFlags
        /\ mBypassed' = IF passed /\ ~f.fatal /\ ~b.fatal /\ mIsSoundTypesBypassEnabled
                        THEN bypass ELSE mBypassed
        /\ fatal' = (f.fatal \/ b.fatal)
        /\ sent' = f.cmds \o b.cmds
        /\ lastOp' = Op("checkAudioTracks", NULL, activeTracks, passed)
        /\ UNCHANGED <<mEffect, volVars, mVersion, maxVars, mIsSoundTypesBypassEnabled,
                       propValue, attach, enabled, verVars, thrVars, fmVars, argVars>>

\* The early returns of checkForBypass: TRUE when it goes on to the loop.
bypassGate(activeTracks, id) ==
    /\ mIsSoundTypesBypassEnabled
    /\ Len(activeTracks) # 0
    /\ mEffect # NULL
    /\ attach.st # "gone"
    /\ attach.st # "unattached"
    /\ enabled
    /\ attach.st = "live"
    /\ id = attach.id

\* updateBypassState(): the bypass command with the value mBypassed holds.
updateBypassState(bypassed, reply) ==
    setParam(mEffect, "EFFECT_PARAM_SET_BYPASS", B2I(bypassed), reply)

\* checkForBypass(activeTracks, id).
CheckForBypass(activeTracks, id, reply) ==
    LET passed == bypassGate(activeTracks, id)
        bypass == bypassFrom(activeTracks, 1, FALSE)
        b == IF passed /\ bypass # mBypassed
             THEN updateBypassState(bypass, reply)
             ELSE [status |-> "NONE", fatal |-> FALSE, cmds |-> <<>>]
    IN  /\ ~fatal
        /\ mBypassed' = IF passed THEN bypass ELSE mBypassed
        /\ fatal' = b.fatal
        /\ sent' = b.cmds
        /\ lastOp' = Op("checkForBypass", NULL, activeTracks, passed)
        /\ UNCHANGED <<mEffect, volVars, mVersion, maxVars, mAudioFlags,
                       mIsSoundTypesBypassEnabled, propValue, attach, enabled, verVars, thrVars, fmVars, argVars>>

\* skipHardBypass(): returns what setParam returns.
SkipHardBypass(reply) ==
    LET r == setParam(mEffect, "EFFECT_PARAM_SKIP_HARD_BYPASS", 1, reply)
    IN  /\ ~fatal
        /\ fatal' = r.fatal
        /\ sent' = r.cmds
        /\ lastOp' = [Op("skipHardBypass", NULL, <<>>, mEffect # NULL)
                        EXCEPT !.status = r.status]
        /\ UNCHANGED <<ctrlVars, propValue, attach, enabled, verVars, thrVars, fmVars, argVars>>

\* ---------------------------------------------------------------- lifecycle

\* effectCreated(effect, thread): the framework calls it for an effect it has
\* just created, disabled, in a chain of `thread`.
EffectCreated(effect, thread, reply) ==
    /\ ~fatal
    /\ IF isDapEffect(effect) /\ sessionId(effect) = "AUDIO_SESSION_OUTPUT_MIX"
       THEN LET att == [st |-> "live", id |-> thread.id]
                r == updateOffload(effect, att, thread, reply)
            IN  /\ mEffect' = effect
                /\ mBypassed' = FALSE
                /\ mDapVol' = 0
                /\ mMixerVol' = 0
                /\ mDirectVol' = 0
                /\ mOffloadVol' = 0
                /\ attach' = att
                /\ enabled' = FALSE
                /\ fatal' = r.fatal
                /\ sent' = r.cmds
                /\ lastOp' = Op("effectCreated", effect, <<>>, TRUE)
       ELSE /\ UNCHANGED <<mEffect, mBypassed, volVars, attach, enabled, fatal>>
            /\ sent' = <<>>
            /\ lastOp' = Op("effectCreated", effect, <<>>, FALSE)
    /\ UNCHANGED <<mVersion, maxVars, mAudioFlags, mIsSoundTypesBypassEnabled,
                   propValue, verVars, thrVars, fmVars, argVars>>

\* effectReleased(effect), run under mLock.
EffectReleased(effect) ==
    /\ ~fatal
    /\ IF isDapEffect(effect) /\ sessionId(effect) = "AUDIO_SESSION_OUTPUT_MIX"
       THEN /\ mEffect' = NULL
            /\ attach' = Detached
            /\ enabled' = FALSE
            /\ lastOp' = Op("effectReleased", effect, <<>>, TRUE)
       ELSE /\ UNCHANGED <<mEffect, attach, enabled>>
            /\ lastOp' = Op("effectReleased", effect, <<>>, FALSE)
    /\ sent' = <<>>
    /\ UNCHANGED <<mBypassed, volVars, mVersion, maxVars, mAudioFlags,
                   mIsSoundTypesBypassEnabled, propValue, fatal, verVars, thrVars, fmVars, argVars>>

\* effectSuspended(effect, suspend) only logs.
EffectSuspended(effect) ==
    /\ ~fatal
    /\ lastOp' = Op("effectSuspended", NULL, <<>>, isDapEffect(effect))
    /\ sent' = <<>>
    /\ UNCHANGED <<ctrlVars, envVars, verVars, thrVars, fmVars, argVars>>

\* The framework re-attaches or tears down the bound effect's chain or thread.
ChainChanges(att) ==
    /\ ~fatal
    /\ mEffect # NULL
    /\ att # attach
    /\ attach' = att
    /\ lastOp' = Op("environment", NULL, <<>>, FALSE)
    /\ sent' = <<>>
    /\ UNCHANGED <<ctrlVars, propValue, enabled, fatal, verVars, thrVars, fmVars, argVars>>

\* The bound effect is enabled or disabled.
EnabledChanges ==
    /\ ~fatal
    /\ mEffect # NULL
    /\ enabled' = ~enabled
    /\ lastOp' = Op("environment", NULL, <<>>, FALSE)
    /\ sent' = <<>>
    /\ UNCHANGED <<ctrlVars, propValue, attach, fatal, verVars, thrVars, fmVars, argVars>>

\* ----------------------------------------------------------------- threads

\* The threads that call the controller.  Each call is a sequence of steps,
\* one per group of accesses to the controller's fields; pc[p] is the step
\* thread p takes next and frame[p] holds the call's arguments and locals.
Procs == {"t1", "t2"}
Free == "free"
NoFrame ==
    [effect |-> NULL, thread |-> NullThread, activeTracks |-> <<>>, id |-> 0,
     thread_type |-> "NULL", flags |-> {}, max_vol |-> 0, bypass |-> FALSE]

\* What the threads pass: effects that match the DAP type and the output-mix
\* session, the mixer thread 5, one active track, one pregain caller.
ThreadEffects == {"e1", "e2"}
MixerThread == [id |-> 5, type |-> "MIXER", noOffloadDevice |-> TRUE]
ThreadTracks == {<<RingTrack>>, <<MusicTrack>>}
ThreadCaller == <<"MIXER", {"DEEP_BUFFER"}>>
\* The effect answers every command of these calls with a 4-byte NO_ERROR.
OkReply == [transport |-> "NO_ERROR", size |-> 4, status |-> "NO_ERROR"]

\* No thread is in a call, mLock is free.
InitThreadVars ==
    /\ pc = [p \in Procs |-> "idle"]
    /\ frame = [p \in Procs |-> NoFrame]
    /\ mLock = Free
    /\ nullUse = FALSE

callVars == <<mIsSoundTypesBypassEnabled, propValue, fatal, lastOp, verVars, lastCall, fmVars>>
constVars == <<callVars, lastBypass>>

Running(p) == ~fatal /\ ~nullUse /\ pc[p] # "crashed"
Goto(p, label) == pc' = [pc EXCEPT ![p] = label]
Return(p) ==
    /\ pc' = [pc EXCEPT ![p] = "idle"]
    /\ frame' = [frame EXCEPT ![p] = NoFrame]

\* `mEffect->` on a null mEffect is undefined: the call either ends the
\* process or comes back having done nothing.
NullDeref(p) ==
    /\ nullUse' = TRUE
    /\ \E outcome \in {"crashed", "idle"} : pc' = [pc EXCEPT ![p] = outcome]
    /\ frame' = [frame EXCEPT ![p] = NoFrame]

\* effectCreated, line 45: no lock is taken.
EffectCreatedBind(p, effect, thread) ==
    /\ Running(p)
    /\ pc[p] = "idle"
    /\ isDapEffect(effect) /\ sessionId(effect) = "AUDIO_SESSION_OUTPUT_MIX"
    /\ mEffect' = effect
    /\ attach' = [st |-> "live", id |-> thread.id]
    /\ enabled' = FALSE
    /\ frame' = [frame EXCEPT ![p] = [NoFrame EXCEPT !.effect = effect, !.thread = thread]]
    /\ Goto(p, "cre_reset")
    /\ sent' = <<>>
    /\ lastBypass' = <<>>
    /\ UNCHANGED <<mBypassed, mAudioFlags, volVars, maxVars, mVersion, callVars,
                   mLock, nullUse>>

\* effectCreated, lines 46-50.
EffectCreatedReset(p) ==
    /\ Running(p)
    /\ pc[p] = "cre_reset"
    /\ mBypassed' = FALSE
    /\ mDapVol' = 0
    /\ mMixerVol' = 0
    /\ mDirectVol' = 0
    /\ mOffloadVol' = 0
    /\ Goto(p, "off_check")
    /\ sent' = <<>>
    /\ lastBypass' = <<>>
    /\ UNCHANGED <<mEffect, attach, enabled, mAudioFlags, maxVars, mVersion, callVars,
                   frame, mLock, nullUse>>

\* updateOffload called from effectCreated (line 51): its test of mEffect.
OffloadCheck(p) ==
    /\ Running(p)
    /\ pc[p] = "off_check"
    /\ IF mEffect = NULL THEN Return(p) ELSE Goto(p, "off_use") /\ UNCHANGED frame
    /\ sent' = <<>>
    /\ UNCHANGED <<mEffect, attach, enabled, mBypassed, mAudioFlags, volVars, maxVars,
                   mVersion, constVars, mLock, nullUse>>

\* updateOffload(thread) called on its own: it returns at once on a null
\* mEffect; no lock is taken.
UpdateOffloadEnter(p, thread) ==
    /\ Running(p)
    /\ pc[p] = "idle"
    /\ mEffect # NULL
    /\ frame' = [frame EXCEPT ![p] = [NoFrame EXCEPT !.thread = thread]]
    /\ Goto(p, "off_use")
    /\ sent' = <<>>
    /\ UNCHANGED <<mEffect, attach, enabled, mBypassed, mAudioFlags, volVars, maxVars,
                   mVersion, constVars, mLock, nullUse>>

\* updateOffload, lines 92-123.
OffloadUse(p) ==
    /\ Running(p)
    /\ pc[p] = "off_use"
    /\ IF mEffect = NULL
       THEN NullDeref(p) /\ sent' = <<>>
       ELSE /\ sent' = updateOffload(mEffect, attach, frame[p].thread, OkReply).cmds
            /\ Return(p)
            /\ UNCHANGED nullUse
    /\ UNCHANGED <<mEffect, attach, enabled, mBypassed, mAudioFlags, volVars, maxVars,
                   mVersion, constVars, mLock>>

\* effectReleased, line 64: Mutex::Autolock _l(mLock).
EffectReleasedLock(p, effect) ==
    /\ Running(p)
    /\ pc[p] = "idle"
    /\ mLock = Free
    /\ mLock' = p
    /\ frame' = [frame EXCEPT ![p] = [NoFrame EXCEPT !.effect = effect]]
    /\ Goto(p, "rel_clear")
    /\ sent' = <<>>
    /\ UNCHANGED <<mEffect, attach, enabled, mBypassed, mAudioFlags, volVars, maxVars,
                   mVersion, constVars, nullUse>>

\* effectReleased, lines 65-69; the lock is released on return.
EffectReleasedClear(p) ==
    /\ Running(p)
    /\ pc[p] = "rel_clear"
    /\ IF isDapEffect(frame[p].effect)
            /\ sessionId(frame[p].effect) = "AUDIO_SESSION_OUTPUT_MIX"
       THEN mEffect' = NULL /\ attach' = Detached /\ enabled' = FALSE
       ELSE UNCHANGED <<mEffect, attach, enabled>>
    /\ mLock' = Free
    /\ Return(p)
    /\ sent' = <<>>
    /\ UNCHANGED <<mBypassed, mAudioFlags, volVars, maxVars, mVersion, constVars, nullUse>>

\* checkAudioTracks, lines 153-160: it returns at once on no active track or
\* a null mEffect; no lock is taken.
CheckAudioTracksEnter(p, activeTracks, id) ==
    /\ Running(p)
    /\ pc[p] = "idle"
    /\ Len(activeTracks) # 0
    /\ mEffect # NULL
    /\ frame' = [frame EXCEPT ![p] = [NoFrame EXCEPT !.activeTracks = activeTracks, !.id = id]]
    /\ Goto(p, "cat_chain")
    /\ sent' = <<>>
    /\ UNCHANGED <<mEffect, attach, enabled, mBypassed, mAudioFlags, volVars, maxVars,
                   mVersion, constVars, mLock, nullUse>>

\* checkAudioTracks, lines 162-179.
CheckAudioTracksChain(p) ==
    /\ Running(p)
    /\ pc[p] = "cat_chain"
    /\ IF mEffect = NULL
       THEN NullDeref(p)
       ELSE /\ IF audioTracksGate(frame[p].activeTracks, frame[p].id)
               THEN Goto(p, "cat_flags") /\ UNCHANGED frame
               ELSE Return(p)
            /\ UNCHANGED nullUse
    /\ sent' = <<>>
    /\ UNCHANGED <<mEffect, attach, enabled, mBypassed, mAudioFlags, volVars, maxVars,
                   mVersion, constVars, mLock>>

\* checkAudioTracks, lines 182-193.
CheckAudioTracksFlags(p, differs) ==
    LET flags == audioFlagsFrom(frame[p].activeTracks, 1, 0)
    IN  /\ Running(p)
        /\ pc[p] = "cat_flags"
        /\ IF audioFlagsDiffer(flags, differs)
           THEN /\ sent' = setParam(mEffect, "EFFECT_PARAM_SET_AUDIO_FLAG", flags, OkReply).cmds
                /\ mAudioFlags' = flags
           ELSE sent' = <<>> /\ UNCHANGED mAudioFlags
        /\ Goto(p, "cat_bypass")
        /\ UNCHANGED <<mEffect, attach, enabled, mBypassed, volVars, maxVars, mVersion,
                       constVars, frame, mLock, nullUse>>

\* checkAudioTracks, lines 195-209: the loop and the test of mBypassed.
CheckAudioTracksBypass(p) ==
    LET bypass == bypassFrom(frame[p].activeTracks, 1, FALSE)
    IN  /\ Running(p)
        /\ pc[p] = "cat_bypass"
        /\ IF mIsSoundTypesBypassEnabled /\ bypass # mBypassed
           THEN /\ frame' = [frame EXCEPT ![p].bypass = bypass]
                /\ Goto(p, "cat_send")
           ELSE Return(p)
        /\ sent' = <<>>
        /\ UNCHANGED <<mEffect, attach, enabled, mBypassed, mAudioFlags, volVars, maxVars,
                       mVersion, constVars, mLock, nullUse>>

\* checkAudioTracks, lines 211-212.
CheckAudioTracksSend(p) ==
    /\ Running(p)
    /\ pc[p] = "cat_send"
    /\ sent' = setParam(mEffect, "EFFECT_PARAM_SET_BYPASS", B2I(frame[p].bypass), OkReply).cmds
    /\ lastBypass' = IF sent' = <<>> THEN lastBypass ELSE sent'[1].vals
    /\ mBypassed' = frame[p].bypass
    /\ Return(p)
    /\ UNCHANGED <<mEffect, attach, enabled, mAudioFlags, volVars, maxVars, mVersion,
                   callVars, mLock, nullUse>>

\* checkForBypass, lines 222-232: it returns at once with the policy off, on
\* no active track or on a null mEffect; no lock is taken.
CheckForBypassEnter(p, activeTracks, id) ==
    /\ Running(p)
    /\ pc[p] = "idle"
    /\ mIsSoundTypesBypassEnabled
    /\ Len(activeTracks) # 0
    /\ mEffect # NULL
    /\ frame' = [frame EXCEPT ![p] = [NoFrame EXCEPT !.activeTracks = activeTracks, !.id = id]]
    /\ Goto(p, "cfb_chain")
    /\ sent' = <<>>
    /\ UNCHANGED <<mEffect, attach, enabled, mBypassed, mAudioFlags, volVars, maxVars,
                   mVersion, constVars, mLock, nullUse>>

\* checkForBypass, lines 234-251.
CheckForBypassChain(p) ==
    /\ Running(p)
    /\ pc[p] = "cfb_chain"
    /\ IF mEffect = NULL
       THEN NullDeref(p)
       ELSE /\ IF bypassGate(frame[p].activeTracks, frame[p].id)
               THEN Goto(p, "cfb_bypass") /\ UNCHANGED frame
               ELSE Return(p)
            /\ UNCHANGED nullUse
    /\ sent' = <<>>
    /\ UNCHANGED <<mEffect, attach, enabled, mBypassed, mAudioFlags, volVars, maxVars,
                   mVersion, constVars, mLock>>

\* checkForBypass, lines 254-268: the loop, the test of mBypassed and the
\* assignment to it.
CheckForBypassBypass(p) ==
    LET bypass == bypassFrom(frame[p].activeTracks, 1, FALSE)
    IN  /\ Running(p)
        /\ pc[p] = "cfb_bypass"
        /\ IF bypass # mBypassed
           THEN mBypassed' = bypass /\ Goto(p, "cfb_send") /\ UNCHANGED frame
           ELSE Return(p) /\ UNCHANGED mBypassed
        /\ sent' = <<>>
        /\ UNCHANGED <<mEffect, attach, enabled, mAudioFlags, volVars, maxVars, mVersion,
                       constVars, mLock, nullUse>>

\* checkForBypass, line 269: updateBypassState() sends what mBypassed holds.
CheckForBypassSend(p) ==
    /\ Running(p)
    /\ pc[p] = "cfb_send"
    /\ sent' = updateBypassState(mBypassed, OkReply).cmds
    /\ lastBypass' = IF sent' = <<>> THEN lastBypass ELSE sent'[1].vals
    /\ Return(p)
    /\ UNCHANGED <<mEffect, attach, enabled, mBypassed, mAudioFlags, volVars, maxVars,
                   mVersion, callVars, mLock, nullUse>>

\* updatePregain, line 284: Mutex::Autolock _l(mLock).
UpdatePregainLock(p, thread_type, id, flags, max_vol) ==
    /\ Running(p)
    /\ pc[p] = "idle"
    /\ mLock = Free
    /\ mLock' = p
    /\ frame' = [frame EXCEPT ![p] = [NoFrame EXCEPT !.thread_type = thread_type, !.id = id,
                                                     !.flags = flags, !.max_vol = max_vol]]
    /\ Goto(p, "pg_gate")
    /\ sent' = <<>>
    /\ UNCHANGED <<mEffect, attach, enabled, mBypassed, mAudioFlags, volVars, maxVars,
                   mVersion, constVars, nullUse>>

\* updatePregain, lines 287-326; the lock is released on return.
UpdatePregainGate(p) ==
    LET version == getVersion(mVersion, propValue)
    IN  /\ Running(p)
        /\ pc[p] = "pg_gate"
        /\ mVersion' = version
        /\ IF ~newerThanBaseline[version]
                /\ pregainGate(frame[p].thread_type, frame[p].id, frame[p].flags)
           THEN Goto(p, "pg_volume") /\ UNCHANGED <<frame, mLock>>
           ELSE Return(p) /\ mLock' = Free
        /\ sent' = <<>>
        /\ UNCHANGED <<mEffect, attach, enabled, mBypassed, mAudioFlags, volVars, maxVars,
                       constVars, nullUse>>

\* updatePregain, lines 328-358; the lock is released on return.
UpdatePregainVolume(p) ==
    LET thread_type == frame[p].thread_type
        mixer == IF thread_type = "MIXER" THEN frame[p].max_vol ELSE mMixerVol
        direct == IF thread_type = "DIRECT" THEN frame[p].max_vol ELSE mDirectVol
        offload == IF thread_type = "OFFLOAD" THEN frame[p].max_vol ELSE mOffloadVol
        vol == Max3(mixer, direct, offload)
        r == IF ~pregainSuppressed(vol)
             THEN setPregainWithStreamType(vol, frame[p].flags, OkReply)
             ELSE [status |-> "NONE", fatal |-> FALSE, cmds |-> <<>>,
                   maxMixer |-> mMaxMixerVol, maxDirect |-> mMaxDirectVol,
                   maxOffload |-> mMaxOffloadVol]
    IN  /\ Running(p)
        /\ pc[p] = "pg_volume"
        /\ mMixerVol' = mixer
        /\ mDirectVol' = direct
        /\ mOffloadVol' = offload
        /\ mMaxMixerVol' = r.maxMixer
        /\ mMaxDirectVol' = r.maxDirect
        /\ mMaxOffloadVol' = r.maxOffload
        /\ mDapVol' = IF r.status = "NO_ERROR" THEN vol ELSE mDapVol
        /\ sent' = r.cmds
        /\ mLock' = Free
        /\ Return(p)
        /\ UNCHANGED <<mEffect, attach, enabled, mBypassed, mAudioFlags, mVersion,
                       constVars, nullUse>>

\* ----------------------------------------------------------- FeatureManager

\* feature_type: AUDIO_DOLBY_ENABLE = 0 .. AUDIO_DOLBY_AC4_SPLIT_SEC = 3 are
\* the cases of the switch; AUDIO_FEATURE_MIN = -1 and AUDIO_FEATURE_MAX take
\* its default.
AUDIO_FEATURE_MAX == 4
KnownFeatures == 0..3
FeatureIds == {-1} \cup KnownFeatures \cup {AUDIO_FEATURE_MAX}

\* A thread outside isFeatureEnable, before its first call.
NoFeatureCall == [pc |-> "idle", type |-> 0, i |-> 0, ret |-> <<>>]

\* The statics before the first call: mInstance is nullptr (0), no instance
\* has been constructed, FeatureManager::mLock is free.
InitFeatureManager ==
    /\ mInstance = 0
    /\ created = 0
    /\ mFeatureTable = <<>>
    /\ fmLock = Free
    /\ fm = [p \in Procs |-> NoFeatureCall]

FmGoto(p, label) == fm' = [fm EXCEPT ![p].pc = label]

\* isFeatureEnable(type) entering getInstance: the unlocked test of mInstance
\* at line 54; a non-null mInstance is returned at line 61.
IsFeatureEnable(p, type) ==
    /\ fm[p].pc = "idle"
    /\ fm' = [fm EXCEPT ![p] = [pc |-> IF mInstance = 0 THEN "gi_lock" ELSE "fe_empty",
                                type |-> type, i |-> 0, ret |-> <<>>]]
    /\ UNCHANGED <<controllerVars, mInstance, created, mFeatureTable, fmLock, daxSupport>>

\* getInstance, lines 55-58: the lock is taken and mInstance tested again;
\* when it is set the function returns it and the guard releases the lock.
GetInstanceLock(p) ==
    /\ fm[p].pc = "gi_lock"
    /\ fmLock = Free
    /\ IF mInstance # 0
       THEN FmGoto(p, "fe_empty") /\ UNCHANGED fmLock
       ELSE FmGoto(p, "gi_create") /\ fmLock' = p
    /\ UNCHANGED <<controllerVars, mInstance, created, mFeatureTable, daxSupport>>

\* getInstance, lines 59-61, createInstance and the constructor (lines 11-13):
\* a new FeatureManager with an empty mFeatureTable becomes mInstance.
GetInstanceCreate(p) ==
    /\ fm[p].pc = "gi_create"
    /\ created' = created + 1
    /\ mInstance' = created + 1
    /\ mFeatureTable' = <<>>
    /\ fmLock' = Free
    /\ FmGoto(p, "fe_empty")
    /\ UNCHANGED <<controllerVars, daxSupport>>

\* isFeatureEnableInternal, line 16: mFeatureTable.empty(), no lock held.
InternalEmpty(p) ==
    /\ fm[p].pc = "fe_empty"
    /\ FmGoto(p, IF mFeatureTable = <<>> THEN "fe_lock" ELSE "fe_read")
    /\ UNCHANGED <<controllerVars, mInstance, created, mFeatureTable, fmLock, daxSupport>>

\* isFeatureEnableInternal, line 17: the lock is taken; the table is not
\* tested again.
InternalLock(p) ==
    /\ fm[p].pc = "fe_lock"
    /\ fmLock = Free
    /\ fmLock' = p
    /\ FmGoto(p, "init_alloc")
    /\ UNCHANGED <<controllerVars, mInstance, created, mFeatureTable, daxSupport>>

\* initFeatureTable_l, lines 39-41: the table is replaced by
\* AUDIO_FEATURE_MAX + 1 entries, all false, and the property is read; with
\* the property false the function returns and the lock is released.
InitAlloc(p) ==
    /\ fm[p].pc = "init_alloc"
    /\ mFeatureTable' = [k \in 1..(AUDIO_FEATURE_MAX + 1) |-> FALSE]
    /\ IF daxSupport
       THEN FmGoto(p, "init_fill") /\ UNCHANGED fmLock
       ELSE FmGoto(p, "fe_read") /\ fmLock' = Free
    /\ UNCHANGED <<controllerVars, mInstance, created, daxSupport>>

\* initFeatureTable_l, lines 42-45: one entry is set to true; after the last
\* one the lock is released.
InitFill(p) ==
    /\ fm[p].pc = "init_fill"
    /\ mFeatureTable' = [mFeatureTable EXCEPT ![fm[p].i + 1] = TRUE]
    /\ IF fm[p].i + 1 \in KnownFeatures
       THEN fm' = [fm EXCEPT ![p].i = fm[p].i + 1] /\ UNCHANGED fmLock
       ELSE fm' = [fm EXCEPT ![p].pc = "fe_read", ![p].i = 0] /\ fmLock' = Free
    /\ UNCHANGED <<controllerVars, mInstance, created, daxSupport>>

\* What mFeatureTable[type] gives thread p, which holds no lock: the entry,
\* or anything when another thread is replacing or filling the table at the
\* same time (a data race on the vector).
FeatureRead(p, type) ==
    IF \E q \in Procs \ {p} : fm[q].pc \in {"init_alloc", "init_fill"}
    THEN BOOLEAN
    ELSE {mFeatureTable[type + 1]}

\* isFeatureEnableInternal, lines 21-35: the switch and the return.
InternalRead(p) ==
    /\ fm[p].pc = "fe_read"
    /\ \E value \in (IF fm[p].type \in KnownFeatures THEN FeatureRead(p, fm[p].type)
                     ELSE {FALSE}) :
          fm' = [fm EXCEPT ![p].pc = "idle", ![p].ret = <<value>>]
    /\ UNCHANGED <<controllerVars, mInstance, created, mFeatureTable, fmLock, daxSupport>>

\* ------------------------------------------------------------ specification

\* The state the constructor leaves.  mAudioFlags has no initializer: it
\* starts with any value.  attach and enabled describe the bound effect and
\* hold placeholders while nothing is bound.
InitController ==
    /\ mEffect = NULL
    /\ mBypassed = FALSE
    /\ mDapVol = 0
    /\ mMixerVol = 0
    /\ mDirectVol = 0
    /\ mOffloadVol = 0
    /\ mVersion = <<>>
    /\ mMaxMixerVol = 0
    /\ mMaxDirectVol = 0
    /\ mMaxOffloadVol = 0
    /\ mAudioFlags = Uninitialized
    /\ mIsSoundTypesBypassEnabled \in BOOLEAN
    /\ propValue \in PropValues
    /\ attach = Detached
    /\ enabled = FALSE
    /\ fatal = FALSE
    /\ lastOp = Op("constructor", NULL, <<>>, FALSE)
    /\ lastCall = NoCall
    /\ lastBypass = <<>>
    /\ sent = <<>>

Init ==
    /\ InitController
    /\ InitThreadVars
    /\ InitFeatureManager
    /\ daxSupport = FALSE
    /\ verA = <<>>
    /\ verB = <<>>
    /\ verResult = <<>>

\* The replies to the command effectCreated sends through updateOffload: the
\* command's status is dropped there (line 100), so the replies that matter
\* are one of 4 bytes and one of another size.
CreateReplies == {r \in Replies : r.transport = "NO_ERROR" /\ r.status = "NO_ERROR"}

Lifecycle ==
    \/ \E effect \in Effects, thread \in Threads :
         \E reply \in (IF isDapEffect(effect) /\ sessionId(effect) = "AUDIO_SESSION_OUTPUT_MIX"
                       THEN CreateReplies ELSE {NoReply}) :
            EffectCreated(effect, thread, reply)
    \/ \E effect \in Effects : EffectReleased(effect)
    \/ \E effect \in Effects : EffectSuspended(effect)
    \/ \E att \in AttachStates : ChainChanges(att)
    \/ EnabledChanges

PregainCalls ==
    \E caller \in PregainCallers, id \in ThreadIds, max_vol \in Volumes :
        \E reply \in (IF pregainSends(caller[1], id, caller[2], max_vol)
                      THEN Replies ELSE {NoReply}) :
            /\ UpdatePregain(caller[1], id, caller[2], max_vol, reply)
            /\ UNCHANGED argVars

\* The callers whose arguments are observed: one per output category, and the
\* deep-buffer mixer.
ObservedCallers ==
    { <<"MIXER", {}>>, <<"MIXER", {"DEEP_BUFFER"}>>, <<"DIRECT", {"DIRECT"}>>,
      <<"OFFLOAD", {"COMPRESS_OFFLOAD"}>> }

\* Bindings of a non-offloadable and of an offloadable effect, the effect
\* accepting the offload command, and the bound effect being enabled or
\* disabled.
PregainLifecycle ==
    \/ \E effect \in {"e1", "e2"}, thread \in Threads : EffectCreated(effect, thread, OkReply)
    \/ EnabledChanges

\* updatePregain calls, their arguments kept in lastCall.
ObservedPregainCalls ==
    \E caller \in ObservedCallers, id \in ThreadIds, max_vol \in Volumes :
        \E reply \in (IF pregainSends(caller[1], id, caller[2], max_vol)
                      THEN Replies ELSE {NoReply}) :
            /\ UpdatePregain(caller[1], id, caller[2], max_vol, reply)
            /\ lastCall' = [thread_type |-> caller[1], id |-> id, flags |-> caller[2],
                            max_vol |-> max_vol]
            /\ UNCHANGED lastBypass

BypassCalls ==
    \/ \E activeTracks \in CalledTracks, id \in ThreadIds :
         LET passed == audioTracksGate(activeTracks, id)
             flags == audioFlagsFrom(activeTracks, 1, 0)
             bypass == bypassFrom(activeTracks, 1, FALSE)
         IN  \E differs \in (IF passed /\ mAudioFlags = Uninitialized
                              THEN BOOLEAN ELSE {FALSE}) :
               \E r1 \in (IF passed /\ audioFlagsDiffer(flags, differs)
                           THEN Replies ELSE {NoReply}) :
                 \E r2 \in (IF passed /\ mIsSoundTypesBypassEnabled /\ bypass # mBypassed
                                /\ (r1 = NoReply \/ r1.transport # "NO_ERROR" \/ r1.size = 4)
                             THEN (IF r1 \in {NoReply, OkReply} THEN Replies ELSE {OkReply})
                             ELSE {NoReply}) :
                    CheckAudioTracks(activeTracks, id, differs, r1, r2)
    \/ \E activeTracks \in CalledTracks, id \in ThreadIds :
         \E reply \in (IF bypassGate(activeTracks, id)
                            /\ bypassFrom(activeTracks, 1, FALSE) # mBypassed
                        THEN Replies ELSE {NoReply}) :
            CheckForBypass(activeTracks, id, reply)

OffloadCalls ==
    \/ \E thread \in Threads \cup {NullThread} :
         \E reply \in (IF offloadSends(mEffect, attach, thread) THEN Replies ELSE {NoReply}) :
            UpdateOffload(thread, reply)
    \/ \E reply \in (IF mEffect # NULL THEN Replies ELSE {NoReply}) : SkipHardBypass(reply)

\* The lifecycle and the bypass evaluations.  No action of this
\* specification reads the version property, which is left unset.
InitBypass == Init /\ propValue = <<>>
NextBypass == Lifecycle \/ BypassCalls
SpecBypass == InitBypass /\ [][NextBypass]_vars

\* The lifecycle and the calls of updateOffload and skipHardBypass.
InitOffload == Init /\ propValue = <<>>
NextOffload == Lifecycle \/ OffloadCalls
SpecOffload == InitOffload /\ [][NextOffload]_vars

\* versionCompare as a step: the operands are drawn at the start, the result
\* is stored in verResult.
VersionCompare ==
    /\ verResult = <<>>
    /\ verResult' = <<versionCompare(verA, verB)>>
    /\ UNCHANGED <<ctrlVars, envVars, obsVars, verA, verB, thrVars, fmVars, argVars>>

InitVersion ==
    /\ InitController
    /\ InitThreadVars
    /\ InitFeatureManager
    /\ daxSupport = FALSE
    /\ mIsSoundTypesBypassEnabled
    /\ propValue = <<>>
    /\ verA \in VersionStrings
    /\ verB \in VersionStrings
    /\ verResult = <<>>
NextVersion == VersionCompare
SpecVersion == InitVersion /\ [][NextVersion]_vars

\* The lifecycle and the pregain path.  No action of this specification reads
\* the bypass policy switch, which is left at one value.  The version property
\* is unset, for which updatePregain goes on and caches nothing, or newer than
\* the baseline, for which it is skipped; the baseline itself is the case of
\* SpecPregain.
InitVolume == Init /\ mIsSoundTypesBypassEnabled /\ propValue \in {<<>>, V38}
NextVolume == Lifecycle \/ PregainCalls
SpecVolume == InitVolume /\ [][NextVolume]_vars

\* Bindings and the pregain path with the arguments of each call observed.
\* The bypass policy switch is left at one value and the version property is
\* the baseline, for which updatePregain is not skipped.
InitPregain == Init /\ mIsSoundTypesBypassEnabled /\ propValue = DAX3_3POINT6
NextPregain == PregainLifecycle \/ ObservedPregainCalls
SpecPregain == InitPregain /\ [][NextPregain]_vars

\* The calls of several threads, interleaved step by step.
ThreadSteps(p) ==
    \/ \E effect \in ThreadEffects : EffectCreatedBind(p, effect, MixerThread)
    \/ EffectCreatedReset(p)
    \/ OffloadCheck(p)
    \/ UpdateOffloadEnter(p, MixerThread)
    \/ OffloadUse(p)
    \/ \E effect \in ThreadEffects : EffectReleasedLock(p, effect)
    \/ EffectReleasedClear(p)
    \/ \E activeTracks \in ThreadTracks : CheckAudioTracksEnter(p, activeTracks, MixerThread.id)
    \/ CheckAudioTracksChain(p)
    \/ \E differs \in (IF mAudioFlags = Uninitialized THEN BOOLEAN ELSE {FALSE}) :
         CheckAudioTracksFlags(p, differs)
    \/ CheckAudioTracksBypass(p)
    \/ CheckAudioTracksSend(p)
    \/ \E activeTracks \in ThreadTracks : CheckForBypassEnter(p, activeTracks, MixerThread.id)
    \/ CheckForBypassChain(p)
    \/ CheckForBypassBypass(p)
    \/ CheckForBypassSend(p)
    \/ \E max_vol \in Volumes :
         UpdatePregainLock(p, ThreadCaller[1], MixerThread.id, ThreadCaller[2], max_vol)
    \/ UpdatePregainGate(p)
    \/ UpdatePregainVolume(p)

InitThreads == Init /\ mIsSoundTypesBypassEnabled /\ propValue = <<>>
NextThreads == (\E p \in Procs : ThreadSteps(p)) \/ (~nullUse /\ EnabledChanges)
SpecThreads == InitThreads /\ [][NextThreads]_vars

\* Threads calling FeatureManager::isFeatureEnable; the controller is idle.
FeatureSteps(p) ==
    \/ \E type \in FeatureIds : IsFeatureEnable(p, type)
    \/ GetInstanceLock(p)
    \/ GetInstanceCreate(p)
    \/ InternalEmpty(p)
    \/ InternalLock(p)
    \/ InitAlloc(p)
    \/ InitFill(p)
    \/ InternalRead(p)

InitFeature ==
    /\ InitController
    /\ mIsSoundTypesBypassEnabled
    /\ propValue = <<>>
    /\ InitThreadVars
    /\ verA = <<>>
    /\ verB = <<>>
    /\ verResult = <<>>
    /\ InitFeatureManager
    /\ daxSupport \in BOOLEAN
NextFeature == \E p \in Procs : FeatureSteps(p)
SpecFeature == InitFeature /\ [][NextFeature]_vars

\* =================================================================== claims

\* ----------------------------------------------------------------------- C8
\* The segments of a string, said without the strtok loop: the maximal runs
\* of characters other than '.', in order.
SegmentStarts(str) ==
    {i \in 1..Len(str) : str[i] # "." /\ (i = 1 \/ str[i - 1] = ".")}
SegmentEnd(str, i) ==
    CHOOSE j \in i..Len(str) :
        /\ \A k \in i..j : str[k] # "."
        /\ j = Len(str) \/ str[j + 1] = "."
RefSegments(str) ==
    LET starts == SegmentStarts(str)
        nth(n) == CHOOSE i \in starts : Cardinality({j \in starts : j < i}) = n - 1
    IN  [n \in 1..Cardinality(starts) |-> SubSeq(str, nth(n), SegmentEnd(str, nth(n)))]

\* a < b in the lexicographic order of the character codes.
LexLess(a, b) ==
    \E k \in 1..Len(b) :
        /\ \A j \in 1..(k - 1) : j <= Len(a) /\ a[j] = b[j]
        /\ k - 1 <= Len(a)
        /\ k > Len(a) \/ Ord(a[k]) < Ord(b[k])

\* The result the claim describes for segment lists s1 and s2.
RefCompare(s1, s2) ==
    LET n == IF Len(s1) < Len(s2) THEN Len(s1) ELSE Len(s2)
        diff == {i \in 1..n : s1[i] # s2[i]}
    IN  IF diff = {} THEN 0
        ELSE LET k == CHOOSE i \in diff : \A j \in diff : i <= j
             IN  IF LexLess(s1[k], s2[k]) THEN -1 ELSE 1

IsPrefix(s1, s2) == Len(s1) <= Len(s2) /\ SubSeq(s2, 1, Len(s1)) = s1

\* C8: versionCompare(a, b) compares the first min(len, len) '.'-separated
\* segments pairwise as strings and returns -1 or 1 at the first that differ,
\* else 0; it is 0 when one segment list is a prefix of the other, it is
\* antisymmetric, and ("3.6","3.6.1") gives 0, ("3.7","3.6") 1, ("3.6","3.7") -1.
C8_VersionCompare ==
    verResult # <<>> =>
        LET s1 == RefSegments(verA)
            s2 == RefSegments(verB)
        IN  /\ verResult[1] = RefCompare(s1, s2)
            /\ (IsPrefix(s1, s2) \/ IsPrefix(s2, s1)) => verResult[1] = 0
            /\ verResult[1] = 0 - versionCompare(verB, verA)
            /\ (verA = DAX3_3POINT6 /\ verB = V361) => verResult[1] = 0
            /\ (verA = V37 /\ verB = DAX3_3POINT6) => verResult[1] = 1
            /\ (verA = DAX3_3POINT6 /\ verB = V37) => verResult[1] = -1

\* A comparison decided as strings against the numbers: "36" is below "7".
C8_Witness ==
    /\ verA = <<"3", "6">>
    /\ verB = <<"7">>
    /\ verResult = <<-1>>

\* ----------------------------------------------------------------------- C1
\* C1: at most one effect is bound at any time, and effectReleased(e) leaves
\* the binding unchanged unless e is the effect that is currently bound.
C1_ReleaseOnlyClearsBound ==
    [][(lastOp'.name = "effectReleased" /\ lastOp'.effect # mEffect)
          => mEffect' = mEffect]_vars

\* ----------------------------------------------------------------------- C2
PregainCommands(cmds) ==
    SelectSeq(cmds, LAMBDA c : c.id = "EFFECT_PARAM_SET_PREGAIN")

\* C2: a pregain command for a category is never sent twice in a row with the
\* same value: the call after one that sent an accepted [v, F] does not send
\* [v, F] again.
C2_PregainNeverRepeated ==
    [][\A i \in DOMAIN PregainCommands(sent), j \in DOMAIN PregainCommands(sent') :
          LET c == PregainCommands(sent)[i]
              d == PregainCommands(sent')[j]
          IN  (c.status = "NO_ERROR" /\ d.vals[2] = c.vals[2]) => d.vals[1] # c.vals[1]]_vars

\* ----------------------------------------------------------------------- C3
\* C3: every pregain command updatePregain sends carries the largest of the
\* three stored volumes, which is never 0; when the largest is 0 nothing is
\* sent and the last-applied values stay as they are.
C3_PregainIsMax ==
    /\ [](\A i \in DOMAIN PregainCommands(sent) :
            LET v == PregainCommands(sent)[i].vals[1]
                stored == {mMixerVol, mDirectVol, mOffloadVol}
            IN  v \in stored /\ (\A w \in stored : w <= v) /\ v # 0)
    /\ [][(lastOp'.name = "updatePregain"
             /\ mMixerVol' = 0 /\ mDirectVol' = 0 /\ mOffloadVol' = 0)
            => (sent' = <<>> /\ UNCHANGED maxVars)]_vars

\* A direct-path call raised the volume to 80 while the mixer path is silent.
C3_Witness ==
    /\ lastOp.name = "updatePregain"
    /\ PregainCommands(sent) # <<>>
    /\ PregainCommands(sent)[1].vals[1] = 80
    /\ mMixerVol = 0
    /\ mDirectVol = 80

\* ----------------------------------------------------------------------- C4
BypassCommands(cmds) ==
    SelectSeq(cmds, LAMBDA c : c.id = "EFFECT_PARAM_SET_BYPASS")

BypassChecks == {"checkAudioTracks", "checkForBypass"}

\* C4: a bypass evaluation over active tracks that include a MUSIC track
\* computes and records bypass = false.
C4_MusicForcesNoBypass ==
    (lastOp.name \in BypassChecks /\ lastOp.passed /\ lastOp.music) =>
        /\ \A i \in DOMAIN BypassCommands(sent) : BypassCommands(sent)[i].vals[1] = 0
        /\ ~fatal => ~mBypassed

\* checkAudioTracks took the effect out of bypass for two tracks, one MUSIC.
C4_Witness ==
    /\ lastOp.name = "checkAudioTracks"
    /\ lastOp.passed
    /\ lastOp.music
    /\ lastOp.size = 2
    /\ BypassCommands(sent) # <<>>
    /\ ~mBypassed

\* ----------------------------------------------------------------------- C5
\* C5: a bypass evaluation with no active track leaves mBypassed and
\* mAudioFlags as they are and sends nothing.
C5_EmptyTracksChangeNothing ==
    [][(lastOp'.name \in BypassChecks /\ lastOp'.size = 0)
          => (mBypassed' = mBypassed /\ mAudioFlags' = mAudioFlags /\ sent' = <<>>)]_vars

\* An empty check came while the effect was bypassed and flags had been sent.
C5_Witness ==
    /\ lastOp.name = "checkAudioTracks"
    /\ lastOp.size = 0
    /\ mBypassed
    /\ mAudioFlags = 2

\* ----------------------------------------------------------------------- C6
\* What a check that changed bypass to `value` sent: one bypass command.
SentBypass(value) ==
    /\ Len(BypassCommands(sent')) = 1
    /\ BypassCommands(sent')[1].vals[1] = B2I(value)

\* C6: with the policy on and an enabled effect attached to the calling
\* thread, a check of [RING] while not bypassed records bypass = true and
\* sends one bypass command with true, and a check of [RING, MUSIC] while
\* bypassed records false and sends one with false; every check whose bypass
\* value differs from the recorded one sends exactly one bypass command with
\* the new value and records it, and a check whose value is the same sends none.
C6_BypassChangeIsSent ==
    /\ [][(lastOp'.name \in BypassChecks /\ lastOp'.passed
             /\ mIsSoundTypesBypassEnabled /\ ~fatal')
            => IF mBypassed' # mBypassed
               THEN SentBypass(mBypassed')
               ELSE BypassCommands(sent') = <<>>]_vars
    /\ [][(lastOp'.name \in BypassChecks /\ lastOp'.passed
             /\ lastOp'.size = 1 /\ lastOp'.ring
             /\ mIsSoundTypesBypassEnabled /\ ~mBypassed /\ ~fatal')
            => (mBypassed' /\ SentBypass(TRUE))]_vars
    /\ [][(lastOp'.name \in BypassChecks /\ lastOp'.passed
             /\ lastOp'.size = 2 /\ lastOp'.ring /\ lastOp'.music
             /\ mIsSoundTypesBypassEnabled /\ mBypassed /\ ~fatal')
            => (~mBypassed' /\ SentBypass(FALSE))]_vars

\* checkForBypass ended a bypass because a MUSIC track joined the ringtone.
C6_Witness ==
    /\ lastOp.name = "checkForBypass"
    /\ lastOp.passed
    /\ lastOp.music
    /\ lastOp.ring
    /\ lastOp.size = 2
    /\ Len(sent) = 1
    /\ sent[1].id = "EFFECT_PARAM_SET_BYPASS"
    /\ sent[1].vals = <<0>>
    /\ sent[1].status = "NO_ERROR"
    /\ ~mBypassed

\* ----------------------------------------------------------------------- C7
\* C7: every updatePregain call that passes the gating checks maps its flags
\* to one of the three categories, so a non-zero effective volume that
\* differs from the last-applied values is sent: updatePregain(MIXER, 5,
\* flags = 0, 80) on a fresh binding attached to mixer thread 5 sends 80.
C7_ChangedVolumeIsSent ==
    [][(lastOp'.name = "updatePregain" /\ lastOp'.passed
          /\ LET vol == Max3(mMixerVol', mDirectVol', mOffloadVol')
             IN  vol # 0 /\ vol \notin {mMaxMixerVol, mMaxDirectVol, mMaxOffloadVol})
         => PregainCommands(sent') # <<>>]_vars

\* ----------------------------------------------------------------------- C9
ParamCommands(cmds) == SelectSeq(cmds, LAMBDA c : c.id # "setOffloaded")

\* C9: a parameter command whose transport succeeded and whose reply is not
\* 4 bytes long ends in the fatal state and its reply is not read as a
\* status; a 4-byte reply is the command's status; a transport failure is
\* the command's status.
C9_ReplySizeIsFatal ==
    /\ \A i \in DOMAIN ParamCommands(sent) :
         LET c == ParamCommands(sent)[i]
         IN  /\ (c.reply.transport = "NO_ERROR" /\ c.reply.size # 4)
                   => (fatal /\ c.status = "ABORTED" /\ i = Len(ParamCommands(sent)))
             /\ (c.reply.transport = "NO_ERROR" /\ c.reply.size = 4)
                   => c.status = c.reply.status
             /\ c.reply.transport # "NO_ERROR" => c.status = c.reply.transport
    /\ fatal => /\ ParamCommands(sent) # <<>>
                /\ ParamCommands(sent)[Len(ParamCommands(sent))].reply.size # 4

\* The effect answered a pregain command with 8 bytes.
C9_Witness ==
    /\ fatal
    /\ Len(sent) = 1
    /\ sent[1].id = "EFFECT_PARAM_SET_PREGAIN"
    /\ sent[1].reply.size = 8

\* ---------------------------------------------------------------------- C10
\* The steps between the first and the last access of a call.
Inside(p) == pc[p] \notin {"idle", "crashed"}

\* The steps of checkAudioTracks, checkForBypass, updateOffload and
\* updatePregain that come after the call has looked at the binding.
UsingBinding ==
    {"off_use", "cat_chain", "cat_flags", "cat_bypass", "cat_send",
     "cfb_chain", "cfb_bypass", "cfb_send", "pg_volume"}

\* C10: one mutex serializes the operations: no two threads are inside code
\* that reads or writes the controller's state at the same time, and the
\* binding is not created or cleared while another thread is in the middle
\* of checkAudioTracks, checkForBypass, updateOffload or updatePregain.
C10_Serialized ==
    /\ [](\A p, q \in Procs : (Inside(p) /\ Inside(q)) => p = q)
    /\ [][\A q \in Procs : (pc[q] \in UsingBinding /\ pc'[q] = pc[q])
             => mEffect' = mEffect]_vars

\* ---------------------------------------------------------------------- C11
\* The commands with parameter `id` among cmds that the effect refused.
FailedCommands(cmds, id) ==
    SelectSeq(cmds, LAMBDA c : c.id = id /\ c.status \notin {"NO_ERROR", "ABORTED"})

\* C11: when the bypass command or the audio-flags command of a bypass
\* evaluation fails, the recorded bypass value and the recorded audio flags
\* stay as they were, so that the next evaluation sends the command again.
C11_FailedCommandNotRecorded ==
    [][(lastOp'.name \in BypassChecks /\ ~fatal')
         => /\ FailedCommands(sent', "EFFECT_PARAM_SET_BYPASS") # <<>>
                 => mBypassed' = mBypassed
            /\ FailedCommands(sent', "EFFECT_PARAM_SET_AUDIO_FLAG") # <<>>
                 => mAudioFlags' = mAudioFlags]_vars

\* ---------------------------------------------------------------------- C12
\* C12: when the pregain command of an updatePregain call fails, the
\* last-applied pregain values of the three categories stay as they were and
\* the call sends that one command only; the next updatePregain call that
\* reaches the send with the same flags and the same effective volume sends
\* the same pregain command again.
C12_FailedPregainIsSentAgain ==
    [][/\ (lastOp'.name = "updatePregain"
             /\ FailedCommands(sent', "EFFECT_PARAM_SET_PREGAIN") # <<>>)
          => (UNCHANGED maxVars /\ Len(sent') = 1)
       /\ (/\ lastOp.name = "updatePregain"
           /\ FailedCommands(sent, "EFFECT_PARAM_SET_PREGAIN") # <<>>
           /\ lastOp'.name = "updatePregain"
           /\ lastOp'.passed
           /\ lastCall'.flags = lastCall.flags
           /\ Max3(mMixerVol', mDirectVol', mOffloadVol') = sent[1].vals[1])
          => (Len(sent') = 1 /\ sent'[1].id = "EFFECT_PARAM_SET_PREGAIN"
                /\ sent'[1].vals = sent[1].vals)]_vars

\* A pregain command was refused and nothing was recorded for its category.
C12_Witness ==
    /\ lastOp.name = "updatePregain"
    /\ FailedCommands(sent, "EFFECT_PARAM_SET_PREGAIN") # <<>>
    /\ lastCall.flags = {"COMPRESS_OFFLOAD"}
    /\ mMaxOffloadVol # sent[1].vals[1]

\* ---------------------------------------------------------------------- C13
\* C13: right after effectCreated accepts an effect the three volumes are 0,
\* the three last-applied pregain values are 0 and bypass is false; an effect
\* it does not accept changes nothing.
C13_CreateResetsEverything ==
    [][(lastOp'.name = "effectCreated")
          => IF lastOp'.passed
             THEN /\ mMixerVol' = 0 /\ mDirectVol' = 0 /\ mOffloadVol' = 0
                  /\ mMaxMixerVol' = 0 /\ mMaxDirectVol' = 0 /\ mMaxOffloadVol' = 0
                  /\ ~mBypassed'
             ELSE UNCHANGED <<ctrlVars, envVars>>]_vars

\* ---------------------------------------------------------------------- C14
\* C14: a bypass evaluation made while the binding's chain is gone, or while
\* the chain's thread no longer resolves to a live thread, sends nothing and
\* changes no controller state, whether the binding is offloadable or not.
C14_StaleBindingIsNoOp ==
    [][(lastOp'.name \in BypassChecks /\ mEffect # NULL /\ attach.st \in {"gone", "dead"})
          => (sent' = <<>> /\ UNCHANGED ctrlVars)]_vars

\* ---------------------------------------------------------------------- C15
\* C15: updateOffload sends nothing at all to the effect when the binding is
\* not offload-capable, just as when the chain's thread does not resolve or
\* is not the thread given.
C15_NothingSentUnlessOffloadable ==
    [][(lastOp'.name = "updateOffload" /\ (mEffect = NULL \/ ~isOffloadable(mEffect)))
          => sent' = <<>>]_vars

\* ---------------------------------------------------------------------- C16
\* C16 as stated: an updatePregain call whose thread id differs from the id of
\* the thread the effect is attached to goes on to update the volume when the
\* binding is not offloadable and the flags include deep-buffer; every other
\* such call changes no volume and sends nothing.
C16_ExceptionForNonOffloadable ==
    [][(lastOp'.name = "updatePregain" /\ mEffect # NULL /\ attach.st = "live"
           /\ lastCall'.id # attach.id)
          => IF ~isOffloadable(mEffect) /\ enabled /\ lastCall'.thread_type = "MIXER"
                  /\ "DEEP_BUFFER" \in lastCall'.flags
             THEN lastOp'.passed /\ mMixerVol' = lastCall'.max_vol
             ELSE sent' = <<>> /\ UNCHANGED <<volVars, maxVars>>]_vars

\* C16: an updatePregain call whose thread id differs from the id of the
\* thread the effect is attached to goes on to update the volume when the
\* binding is offloadable and the flags include deep-buffer; every other such
\* call, and so every such call for a non-offloadable binding, changes no
\* volume and sends nothing.
C16_ExceptionForOffloadable ==
    [][(lastOp'.name = "updatePregain" /\ mEffect # NULL /\ attach.st = "live"
           /\ lastCall'.id # attach.id)
          => IF isOffloadable(mEffect) /\ "DEEP_BUFFER" \in lastCall'.flags
             THEN /\ lastOp'.passed
                  /\ lastCall'.thread_type = "MIXER" => mMixerVol' = lastCall'.max_vol
             ELSE sent' = <<>> /\ UNCHANGED <<volVars, maxVars>>]_vars

\* A deep-buffer call for another thread than the offloadable binding's went
\* through and its pregain was sent.
C16_Witness ==
    /\ lastOp.name = "updatePregain"
    /\ lastOp.passed
    /\ isOffloadable(mEffect)
    /\ attach.st = "live"
    /\ lastCall.id # attach.id
    /\ "DEEP_BUFFER" \in lastCall.flags
    /\ PregainCommands(sent) # <<>>

\* ---------------------------------------------------------------------- C17
\* C17: the first updatePregain call leaves a version in the cache, the value
\* of the property or "3.6" when the property is unset or empty, so that no
\* later call reads the property; a cached version is never replaced.
C17_VersionFetchedOnce ==
    [][(lastOp'.name = "updatePregain")
          => mVersion' = (IF mVersion # <<>> THEN mVersion
                          ELSE IF propValue # <<>> THEN propValue
                          ELSE DAX3_3POINT6)]_vars

\* ---------------------------------------------------------------------- C18
\* C18: while no effect is bound, updateOffload and skipHardBypass send no
\* command, change no controller state and return no error status.
C18_UnboundIsSilent ==
    [][(lastOp'.name \in {"updateOffload", "skipHardBypass"} /\ mEffect = NULL)
          => /\ sent' = <<>>
             /\ UNCHANGED ctrlVars
             /\ lastOp'.status \in {"NONE", "NO_ERROR"}]_vars

\* ---------------------------------------------------------------------- C19
\* The orderings of a sequence: s read through each permutation of its indices.
Orderings(s) ==
    { [i \in DOMAIN s |-> s[f[i]]] :
        f \in { g \in [DOMAIN s -> DOMAIN s] : \A i, j \in DOMAIN s : g[i] = g[j] => i = j } }

\* The OR of the attribute flags of the non-fast, external tracks of s, bit
\* by bit and without regard to their order.
FlagsOfAny(s) ==
    LET counted == { i \in DOMAIN s : s[i] # NullTrack /\ ~s[i].fast /\ s[i].external }
    IN  (IF \E i \in counted : s[i].flags % 2 = 1 THEN 1 ELSE 0)
          + (IF \E i \in counted : (s[i].flags \div 2) % 2 = 1 THEN 2 ELSE 0)

\* C19: in every state, for every collection of active tracks and every
\* ordering of it, checkAudioTracks passes or fails its checks alike and
\* computes the same audio flags, which are the OR of the flags of the
\* non-fast external tracks, and the same bypass value; checkForBypass passes
\* or fails its checks alike and computes the same bypass value.  What either
\* call sends and stores is determined by these values.
C19_OrderOfTracksIsIrrelevant ==
    \A activeTracks \in ActiveTracks : \A other \in Orderings(activeTracks) :
        /\ audioFlagsFrom(other, 1, 0) = audioFlagsFrom(activeTracks, 1, 0)
        /\ audioFlagsFrom(activeTracks, 1, 0) = FlagsOfAny(activeTracks)
        /\ bypassFrom(other, 1, FALSE) = bypassFrom(activeTracks, 1, FALSE)
        /\ \A id \in ThreadIds :
              /\ audioTracksGate(other, id) = audioTracksGate(activeTracks, id)
              /\ bypassGate(other, id) = bypassGate(activeTracks, id)

\* A bypass evaluation went through for a ring track and a music track, the
\* pair whose order decides where the scan stops.
C19_Witness ==
    /\ lastOp.name = "checkAudioTracks"
    /\ lastOp.passed
    /\ lastOp.size = 2
    /\ lastOp.music
    /\ lastOp.ring
    /\ mAudioFlags = 3

\* ---------------------------------------------------------------------- C20
\* C20: under every interleaving of the threads, each bypass command sent to
\* a binding carries another value than the bypass command sent to it before,
\* and once every call has returned the recorded bypass flag is the value of
\* the last bypass command sent.
C20_BypassCommandsNeverRepeat ==
    [][/\ \A i \in DOMAIN BypassCommands(sent') : BypassCommands(sent')[i].vals # lastBypass
       /\ ((\A p \in Procs : pc'[p] = "idle") /\ ~nullUse' /\ lastBypass' # <<>>)
             => lastBypass' = <<B2I(mBypassed')>>]_vars

\* ---------------------------------------------------------------------- C21
\* C21: under every interleaving of effectReleased with the calls of other
\* threads, no call that found the effect bound goes on to use mEffect after
\* the binding has been cleared: no null mEffect is ever dereferenced.
C21_NoUseOfClearedBinding == ~nullUse

\* ---------------------------------------------------------------------- C22
\* What isFeatureEnable(type) has to return: the backing property for a known
\* feature id, false for any other id.
FeatureValue(type) == IF type \in KnownFeatures THEN daxSupport ELSE FALSE

\* C22: under every interleaving of the threads' calls to isFeatureEnable, at
\* most one FeatureManager is created, every call returns the value of the
\* backing property for a known feature id and false for an unknown one, and
\* no call reads the table while another thread has allocated it and not yet
\* filled it in.
C22_FeatureCacheIsConsistent ==
    /\ [](created <= 1)
    /\ [](\A p \in Procs : fm[p].ret # <<>> => fm[p].ret = <<FeatureValue(fm[p].type)>>)
    /\ [][\A p \in Procs : (fm[p].pc = "fe_read" /\ fm'[p].pc = "idle")
             => \A q \in Procs \ {p} : fm[q].pc \notin {"init_alloc", "init_fill"}]_vars

====
